---- MODULE Spec2Model ----
(***************************************************************************)
(* Weabot mood-tracking storage engine (src/src/services/storage.ts) and   *)
(* the HTTP handlers of src/src/server.ts that call it.                    *)
(*                                                                         *)
(* Deno KV is modelled as two keyed collections, one per key prefix:       *)
(*   votes       ["votes", date, userId]       -> VoteRecord               *)
(*   user_votes  ["user_votes", userId, date]  -> VoteRecord               *)
(* An async method is split at its awaits: every kv.set is one step, so    *)
(* other handlers may run between the two index writes of recordVote.      *)
(* The read methods only iterate kv.list: each is an operator over the two *)
(* collections, and a call of one is a step that leaves its result's size  *)
(* in response.  getStats also reads the time zone of the host, an input   *)
(* of the model.                                                           *)
(*                                                                         *)
(* The Discord side of the bot is modelled next to it: buildStatsEmbed and *)
(* handleMessage (src/bot_actions.ts) and the gateway client               *)
(* (src/discord_gateway.ts), each with a state variable of its own.        *)
(***************************************************************************)
EXTENDS Integers, Sequences, FiniteSets, TLC

(***************************************************************************)
(* Bounds of the model.                                                    *)
(***************************************************************************)
MaxRequests == 2
MaxClock == 1
MaxThreshold == 3
MaxLimit == 4
MaxFailures == 1
MaxStatsLen == 2
MaxCount == 1
MaxPending == 1
MaxSockets == 3
MaxSeq == 2

(***************************************************************************)
(* Program constants.                                                      *)
(***************************************************************************)
DefaultLimit == 30
HistoryWindow == 30

(***************************************************************************)
(* Input domains.  A date string "YYYY-MM-DD" is the tuple <<Y, M, D>> of  *)
(* its three zero-padded fields.  UserOrder is the byte order of the user  *)
(* ids, which is the order Deno KV enumerates string key parts in.         *)
(***************************************************************************)
Handlers == {"h1", "h2"}
Writer == "h1"
UserOrder == <<"u1", "u2">>
Users == {UserOrder[i] : i \in 1..Len(UserOrder)}
Names == {"TestUser"}
Moods == {"umazing", "ok", "glue"}
Dates == {<<2025, 11, 1>>, <<2025, 11, 2>>, <<2025, 11, 3>>}
NoParam == "null"
Empty == ""
NoQuery == [user |-> NoParam, mood |-> NoParam]
NoResponse == [op |-> "none", size |-> 0]
NoScan == [pc |-> "idle", threshold |-> 0, userIds |-> <<>>, atRisk |-> <<>>]
NoPayload == [title |-> "", description |-> [text |-> "", total |-> 0], color |-> 0, fields |-> <<>>]
NoEmbed == [pc |-> "idle", stats |-> <<>>, payload |-> NoPayload]

\* Discord messages as handleMessage reads them: the author (absent, or with an
\* id and a bot flag), the channel, the mentions array and the content, of which
\* only the mention tokens <@id> and <@!id> matter.  No gateway payload carries
\* the alias channelId, so that field is always absent.
BotId == "bot"
Channels == {"general"}
BotMention == [id |-> BotId, username |-> "weabot"]
NamedAsBotId == [id |-> "alice", username |-> BotId]
MentionLists == {<<>>, <<BotMention>>, <<NamedAsBotId>>}
MentionToken(id) == [kind |-> "<@", id |-> id]
NickMentionToken(id) == [kind |-> "<@!", id |-> id]
Contents == {{}, {MentionToken(BotId)}, {NickMentionToken(BotId)}}
NoAuthor == [present |-> FALSE, id |-> NoParam, bot |-> FALSE]
Authors ==
  {NoAuthor} \cup {[present |-> TRUE, id |-> a[1], bot |-> a[2]] :
                     a \in {<<"alice", FALSE>>, <<"alice", TRUE>>, <<BotId, TRUE>>,
                            <<BotId, FALSE>>, <<NoParam, FALSE>>}}
Messages ==
  [author : Authors, channel_id : Channels \cup {NoParam}, mentions : MentionLists,
   content : Contents]
NoMessage == [author |-> NoAuthor, channel_id |-> NoParam, mentions |-> <<>>, content |-> {}]
NoChat ==
  [pc |-> "idle", message |-> NoMessage, botId |-> NoParam, channelId |-> NoParam,
   text |-> {}, sent |-> <<>>, inbox |-> <<>>, outcome |-> "none", mentioned |-> FALSE,
   own |-> FALSE]

\* The gateway client's state: the sockets it created, numbered in the order
\* of creation (ws is the latest, 0 before connect()), the interval timer behind
\* heartbeatHandle, and seq (NullSeq for null).
NullSeq == -1
NoBeat == [socket |-> 0, readyState |-> "none", d |-> NullSeq, received |-> NullSeq]
NoGateway ==
  [pc |-> "init", sock |-> [s \in 1..MaxSockets |-> "none"], ws |-> 0,
   heartbeatHandle |-> "undefined", timers |-> 0, seq |-> NullSeq, received |-> NullSeq,
   reconnects |-> 0, identified |-> 0, beat |-> NoBeat, clientClosed |-> {}]
NoRecord == [odUserId |-> "", odUserName |-> "", mood |-> "", date |-> <<>>, timestamp |-> -1]
Thresholds == 1..MaxThreshold
Limits == 0..MaxLimit

VARIABLES votes, user_votes, now, requests, failures, pc, query, rec, result, response, scan,
          wrote, replaced, lastMood, embed, chat, gateway

vars == <<votes, user_votes, now, requests, failures, pc, query, rec, result, response, scan,
          wrote, replaced, lastMood, embed, chat, gateway>>

\* The Discord side of the bot, which the storage service never touches, and
\* the storage side, which the Discord handlers below never touch.
discord == <<embed, chat, gateway>>
storage == <<votes, user_votes, now, requests, failures, pc, query, rec, result, response, scan,
             wrote, replaced, lastMood>>

Min(a, b) == IF a <= b THEN a ELSE b
Max(a, b) == IF a >= b THEN a ELSE b

(***************************************************************************)
(* String.prototype.localeCompare on two date strings: the fields are      *)
(* fixed-width and zero-padded, so the strings compare field by field.     *)
(***************************************************************************)
LocaleCompare(a, b) ==
  IF a[1] # b[1] THEN (IF a[1] < b[1] THEN -1 ELSE 1)
  ELSE IF a[2] # b[2] THEN (IF a[2] < b[2] THEN -1 ELSE 1)
  ELSE IF a[3] # b[3] THEN (IF a[3] < b[3] THEN -1 ELSE 1)
  ELSE 0

(***************************************************************************)
(* The proleptic Gregorian calendar of the JavaScript Date object.  A Date *)
(* is a point in time, written here as its UTC calendar day and UTC hour   *)
(* [date |-> <<y, m, d>>, hour |-> 0..23]; minutes and below are always 0  *)
(* for the Dates getStats builds.                                          *)
(***************************************************************************)
DayNumber(d) == d[1] * 10000 + d[2] * 100 + d[3]

IsLeapYear(y) == (y % 4 = 0 /\ y % 100 # 0) \/ y % 400 = 0

DaysInMonth(y, m) ==
  IF m = 2 THEN (IF IsLeapYear(y) THEN 29 ELSE 28)
  ELSE IF m \in {4, 6, 9, 11} THEN 30 ELSE 31

PreviousDay(d) ==
  IF d[3] > 1 THEN <<d[1], d[2], d[3] - 1>>
  ELSE IF d[2] > 1 THEN <<d[1], d[2] - 1, DaysInMonth(d[1], d[2] - 1)>>
  ELSE <<d[1] - 1, 12, 31>>

NextDay(d) ==
  IF d[3] < DaysInMonth(d[1], d[2]) THEN <<d[1], d[2], d[3] + 1>>
  ELSE IF d[2] < 12 THEN <<d[1], d[2] + 1, 1>>
  ELSE <<d[1] + 1, 1, 1>>

\* new Date("YYYY-MM-DD"): a date-only ISO string is midnight UTC of that day.
DateParse(s) == [date |-> s, hour |-> 0]

\* a <= b on two Dates (the comparison of their time values).
TimeAtOrBefore(a, b) ==
  DayNumber(a.date) * 100 + a.hour <= DayNumber(b.date) * 100 + b.hour

\* The point in time k hours after t, for -24 < k < 24.
AddHours(t, k) ==
  LET h == t.hour + k
  IN  IF h < 0 THEN [date |-> PreviousDay(t.date), hour |-> h + 24]
      ELSE IF h >= 24 THEN [date |-> NextDay(t.date), hour |-> h - 24]
      ELSE [date |-> t.date, hour |-> h]

(***************************************************************************)
(* The time zone of the host process, which Date.prototype.getDate and     *)
(* setDate read: UTC on Deno Deploy, the machine's zone under              *)
(* `deno task dev`.  America/Los_Angeles is at UTC-7 until daylight saving *)
(* time ends on 2025-11-02 at 09:00 UTC, and at UTC-8 from then on.        *)
(***************************************************************************)
TimeZones == {"UTC", "America/Los_Angeles"}

DstEnd == [date |-> <<2025, 11, 2>>, hour |-> 9]

UtcOffset(tz, t) ==
  IF tz = "UTC" THEN 0
  ELSE IF TimeAtOrBefore(DstEnd, t) THEN -8 ELSE -7

Offsets(tz) == IF tz = "UTC" THEN {0} ELSE {-7, -8}

\* The local calendar day and hour of t in tz.
LocalTime(tz, t) == AddHours(t, UtcOffset(tz, t))

\* The point in time whose local time in tz is l (the earlier one of two).
FromLocalTime(tz, l) ==
  LET fits == {t \in {AddHours(l, 0 - o) : o \in Offsets(tz)} : LocalTime(tz, t) = l}
  IN  CHOOSE t \in fits : \A u \in fits : TimeAtOrBefore(t, u)

\* current.setDate(current.getDate() + 1): the next local day, same local time.
SetDatePlusOne(tz, t) ==
  LET l == LocalTime(tz, t)
  IN  FromLocalTime(tz, [date |-> NextDay(l.date), hour |-> l.hour])

\* current.toISOString().split("T")[0]: the UTC calendar day.
ToISODate(t) == t.date

UserIndex(u) == CHOOSE i \in 1..Len(UserOrder) : UserOrder[i] = u

(***************************************************************************)
(* kv.set(key, value): creates the key or replaces its value.              *)
(***************************************************************************)
KvSetIfAbsent(store, key, value) == store @@ (key :> value)

KvSet(store, key, value) == (key :> value) @@ store

(***************************************************************************)
(* VoteRecord built by recordVote.                                         *)
(***************************************************************************)
VoteRecord(userId, userName, mood, date, timestamp) ==
  [odUserId |-> userId, odUserName |-> userName, mood |-> mood, date |-> date,
   timestamp |-> timestamp]

(***************************************************************************)
(* The store right after Deno.openKv: no key under either prefix.          *)
(***************************************************************************)
EmptyStore == [k \in {} |-> NoRecord]

Pairs == Users \X Dates

(***************************************************************************)
(* History variables, not program state: replaced[p] tells that the first  *)
(* write of p's current call replaced a record with another mood, and      *)
(* lastMood[u, d] is the mood of the last recordVote(u, _, _, d) that      *)
(* returned ("none" before the first one).  query[p] is the user and mood  *)
(* parameter of the request p is handling, response what the last read     *)
(* method returned.                                                        *)
(***************************************************************************)
Init ==
  /\ votes = EmptyStore
  /\ user_votes = EmptyStore
  /\ now = 0
  /\ requests = 0
  /\ failures = 0
  /\ pc = [p \in Handlers |-> "idle"]
  /\ query = [p \in Handlers |-> NoQuery]
  /\ rec = [p \in Handlers |-> NoRecord]
  /\ result = [p \in Handlers |-> "none"]
  /\ response = NoResponse
  /\ scan = NoScan
  /\ embed = NoEmbed
  /\ chat = NoChat
  /\ gateway = NoGateway
  /\ wrote = [p \in Handlers |-> {}]
  /\ replaced = [p \in Handlers |-> FALSE]
  /\ lastMood = [k \in Pairs |-> "none"]

(***************************************************************************)
(* No recordVote call is between its start and its end.                    *)
(***************************************************************************)
Quiescent == \A p \in Handlers : pc[p] \in {"idle", "responded"}

(***************************************************************************)
(* GET /vote up to its first await.  user, name and mood are the raw query *)
(* parameters (NoParam: absent, url.searchParams.get gives null; Empty:    *)
(* present with no value); an absent name defaults to "TestUser"; date is  *)
(* the parameter or, when absent, the current day.  query[p] keeps the     *)
(* user and mood parameters of the request p is handling.                  *)
(* A request that fails one of the two checks is answered 400              *)
(* ("rejected") without calling recordVote.  Otherwise recordVote is       *)
(* called: it builds the record with timestamp Date.now() and awaits the   *)
(* first kv.set.                                                           *)
(***************************************************************************)
\* The handler without `!["umazing", "ok", "glue"].includes(mood)`.
VoteRequestAnyMood(p, user, name, mood, date, ts) ==
  /\ pc[p] = "idle"
  /\ requests < MaxRequests
  /\ requests' = requests + 1
  /\ query' = [query EXCEPT ![p] = [user |-> user, mood |-> mood]]
  /\ IF user \in {NoParam, Empty} \/ mood \in {NoParam, Empty}
     THEN /\ ts = now
          /\ pc' = [pc EXCEPT ![p] = "responded"]
          /\ result' = [result EXCEPT ![p] = "rejected"]
          /\ UNCHANGED <<now, rec>>
     ELSE /\ now' = ts
          /\ rec' = [rec EXCEPT ![p] =
                       VoteRecord(user, IF name = NoParam THEN "TestUser" ELSE name,
                                  mood, date, ts)]
          /\ pc' = [pc EXCEPT ![p] = "set_votes"]
          /\ UNCHANGED result
  /\ UNCHANGED <<discord, response, scan, votes, user_votes, failures, wrote, replaced, lastMood>>

VoteRequest(p, user, name, mood, date, ts) ==
  /\ pc[p] = "idle"
  /\ requests < MaxRequests
  /\ requests' = requests + 1
  /\ query' = [query EXCEPT ![p] = [user |-> user, mood |-> mood]]
  /\ IF user \in {NoParam, Empty} \/ mood \in {NoParam, Empty} \/ mood \notin Moods
     THEN /\ ts = now
          /\ pc' = [pc EXCEPT ![p] = "responded"]
          /\ result' = [result EXCEPT ![p] = "rejected"]
          /\ UNCHANGED <<now, rec>>
     ELSE /\ now' = ts
          /\ rec' = [rec EXCEPT ![p] =
                       VoteRecord(user, IF name = NoParam THEN "TestUser" ELSE name,
                                  mood, date, ts)]
          /\ pc' = [pc EXCEPT ![p] = "set_votes"]
          /\ UNCHANGED result
  /\ UNCHANGED <<discord, response, scan, votes, user_votes, failures, wrote, replaced, lastMood>>

(***************************************************************************)
(* recordVote, first write: await kv.set(["votes", date, userId], record). *)
(***************************************************************************)
\* recordVote with an expiry: the first write also drops the by-date records
\* of the days before the vote's date.
SetVotesExpiring(p) ==
  /\ pc[p] = "set_votes"
  /\ votes' = KvSet([k \in {j \in DOMAIN votes : DayNumber(j[1]) >= DayNumber(rec[p].date)}
                       |-> votes[k]],
                    <<rec[p].date, rec[p].odUserId>>, rec[p])
  /\ wrote' = [wrote EXCEPT ![p] = @ \cup {"votes"}]
  /\ replaced' = [replaced EXCEPT ![p] =
                    /\ <<rec[p].date, rec[p].odUserId>> \in DOMAIN votes
                    /\ votes[<<rec[p].date, rec[p].odUserId>>].mood # rec[p].mood]
  /\ pc' = [pc EXCEPT ![p] = "set_user_votes"]
  /\ UNCHANGED <<discord, response, scan, user_votes, now, requests, failures, query, rec,
                 result, lastMood>>

\* The two writes in the other order: the first one goes to the by-user index.
SetVotesUserIndexFirst(p) ==
  /\ pc[p] = "set_votes"
  /\ user_votes' = KvSet(user_votes, <<rec[p].odUserId, rec[p].date>>, rec[p])
  /\ wrote' = [wrote EXCEPT ![p] = @ \cup {"user_votes"}]
  /\ pc' = [pc EXCEPT ![p] = "set_user_votes"]
  /\ UNCHANGED <<discord, response, scan, votes, now, requests, failures, query, rec, result,
                 replaced, lastMood>>

SetVotes(p) ==
  /\ pc[p] = "set_votes"
  /\ votes' = KvSet(votes, <<rec[p].date, rec[p].odUserId>>, rec[p])
  /\ wrote' = [wrote EXCEPT ![p] = @ \cup {"votes"}]
  /\ replaced' = [replaced EXCEPT ![p] =
                    /\ <<rec[p].date, rec[p].odUserId>> \in DOMAIN votes
                    /\ votes[<<rec[p].date, rec[p].odUserId>>].mood # rec[p].mood]
  /\ pc' = [pc EXCEPT ![p] = "set_user_votes"]
  /\ UNCHANGED <<discord, response, scan, user_votes, now, requests, failures, query, rec,
                 result, lastMood>>

(***************************************************************************)
(* recordVote, second write: await kv.set(["user_votes", userId, date],    *)
(* record); then recordVote returns and the handler answers 200.           *)
(***************************************************************************)
SetUserVotesSkipped(p) ==
  /\ pc[p] = "set_user_votes"
  /\ wrote' = [wrote EXCEPT ![p] = @ \cup {"user_votes"}]
  /\ pc' = [pc EXCEPT ![p] = "responded"]
  /\ result' = [result EXCEPT ![p] = "ok"]
  /\ lastMood' = [lastMood EXCEPT ![<<rec[p].odUserId, rec[p].date>>] = rec[p].mood]
  /\ UNCHANGED <<discord, response, scan, votes, user_votes, now, requests, failures, query,
                 rec, replaced>>

\* The record kept in a variable the calls share instead of a local one: the
\* second write stores the record of a call that started meanwhile.
SetUserVotesSharedRecord(p) ==
  LET running == {q \in Handlers \ {p} : pc[q] \in {"set_votes", "set_user_votes"}}
      record == IF running = {} THEN rec[p] ELSE rec[CHOOSE q \in running : TRUE]
  IN  /\ pc[p] = "set_user_votes"
      /\ user_votes' = KvSet(user_votes, <<rec[p].odUserId, rec[p].date>>, record)
      /\ wrote' = [wrote EXCEPT ![p] = @ \cup {"user_votes"}]
      /\ pc' = [pc EXCEPT ![p] = "responded"]
      /\ result' = [result EXCEPT ![p] = "ok"]
      /\ lastMood' = [lastMood EXCEPT ![<<rec[p].odUserId, rec[p].date>>] = rec[p].mood]
      /\ UNCHANGED <<discord, response, scan, votes, now, requests, failures, query, rec, replaced>>

SetUserVotes(p) ==
  /\ pc[p] = "set_user_votes"
  /\ user_votes' = KvSet(user_votes, <<rec[p].odUserId, rec[p].date>>, rec[p])
  /\ wrote' = [wrote EXCEPT ![p] = @ \cup {"user_votes"}]
  /\ pc' = [pc EXCEPT ![p] = "responded"]
  /\ result' = [result EXCEPT ![p] = "ok"]
  /\ lastMood' = [lastMood EXCEPT ![<<rec[p].odUserId, rec[p].date>>] = rec[p].mood]
  /\ UNCHANGED <<discord, response, scan, votes, now, requests, failures, query, rec, replaced>>

(***************************************************************************)
(* The awaited kv.set rejects (storage failure) and has written nothing.   *)
(* recordVote has no try/catch, so the rejection ends recordVote and       *)
(* reaches the handler's catch, which answers 500.                         *)
(***************************************************************************)
KvSetFailsSwallowed(p) ==
  /\ pc[p] \in {"set_votes", "set_user_votes"}
  /\ failures < MaxFailures
  /\ failures' = failures + 1
  /\ pc' = [pc EXCEPT ![p] = "responded"]
  /\ result' = [result EXCEPT ![p] = "ok"]
  /\ UNCHANGED <<discord, response, scan, votes, user_votes, now, requests, query, rec, wrote,
                 replaced, lastMood>>

KvSetFails(p) ==
  /\ pc[p] \in {"set_votes", "set_user_votes"}
  /\ failures < MaxFailures
  /\ failures' = failures + 1
  /\ pc' = [pc EXCEPT ![p] = "responded"]
  /\ result' = [result EXCEPT ![p] = "error"]
  /\ UNCHANGED <<discord, response, scan, votes, user_votes, now, requests, query, rec, wrote,
                 replaced, lastMood>>

(***************************************************************************)
(* The process stops while recordVote is suspended at an await: the call   *)
(* never resumes and nobody is answered.                                   *)
(***************************************************************************)
Interrupt(p) ==
  /\ pc[p] \in {"set_votes", "set_user_votes"}
  /\ failures < MaxFailures
  /\ failures' = failures + 1
  /\ pc' = [pc EXCEPT ![p] = "responded"]
  /\ result' = [result EXCEPT ![p] = "interrupted"]
  /\ UNCHANGED <<discord, response, scan, votes, user_votes, now, requests, query, rec, wrote,
                 replaced, lastMood>>

(***************************************************************************)
(* The handler is done: its Response has gone out (or, after Interrupt,    *)
(* the process has restarted) and the slot serves the next request.        *)
(***************************************************************************)
Respond(p) ==
  /\ pc[p] = "responded"
  /\ pc' = [pc EXCEPT ![p] = "idle"]
  /\ query' = [query EXCEPT ![p] = NoQuery]
  /\ rec' = [rec EXCEPT ![p] = NoRecord]
  /\ result' = [result EXCEPT ![p] = "none"]
  /\ wrote' = [wrote EXCEPT ![p] = {}]
  /\ replaced' = [replaced EXCEPT ![p] = FALSE]
  /\ response' = NoResponse
  /\ UNCHANGED <<discord, votes, user_votes, now, requests, failures, scan, lastMood>>

(***************************************************************************)
(* Status of the HTTP response of GET /vote (0: no response was sent).     *)
(***************************************************************************)
VoteStatus(r) ==
  CASE r = "ok" -> 200
    [] r = "error" -> 500
    [] r = "rejected" -> 400
    [] OTHER -> 0

Request(p) ==
  \E user \in Users \cup {NoParam, Empty}, name \in Names \cup {NoParam},
     mood \in Moods \cup {"bad", NoParam, Empty}, date \in Dates,
     ts \in now..Min(now + 1, MaxClock) :
       VoteRequest(p, user, name, mood, date, ts)

(***************************************************************************)
(* Spec: the single logical writer of the design (one handler, so one      *)
(* request at a time); kv.set may fail and the process may stop between    *)
(* the two writes, at most MaxFailures times.                              *)
(***************************************************************************)
Next ==
  \/ Request(Writer)
  \/ SetVotes(Writer)
  \/ SetUserVotes(Writer)
  \/ KvSetFails(Writer)
  \/ Interrupt(Writer)
  \/ Respond(Writer)

Spec == Init /\ [][Next]_vars

(***************************************************************************)
(* SpecSeq: one handler, so every recordVote runs to completion before the *)
(* next request is handled, and no kv.set fails.                           *)
(***************************************************************************)
NextSeq ==
  \/ Request(Writer)
  \/ SetVotes(Writer)
  \/ SetUserVotes(Writer)
  \/ Respond(Writer)

SpecSeq == Init /\ [][NextSeq]_vars

(***************************************************************************)
(* SpecConc: the handlers run concurrently, no kv.set fails.               *)
(***************************************************************************)
NextConc ==
  \E p \in Handlers :
    \/ Request(p)
    \/ SetVotes(p)
    \/ SetUserVotes(p)
    \/ Respond(p)

SpecConc == Init /\ [][NextConc]_vars

(***************************************************************************)
(* SpecAll: the handlers run concurrently and a kv.set may fail, at most    *)
(* MaxFailures times.  The requests pass the handler's checks and are made *)
(* within one reading of the clock.                                        *)
(***************************************************************************)
AllRequest(p) ==
  \E user \in Users, name \in Names \cup {NoParam}, mood \in Moods, date \in Dates :
    VoteRequest(p, user, name, mood, date, now)

NextAll ==
  \E p \in Handlers :
    \/ AllRequest(p)
    \/ SetVotes(p)
    \/ SetUserVotes(p)
    \/ KvSetFails(p)
    \/ Respond(p)

SpecAll == Init /\ [][NextAll]_vars

(***************************************************************************)
(* SpecPar: the handlers run concurrently, no kv.set fails, and recordVote *)
(* calls that overlap in time are for different (userId, date) pairs: a    *)
(* request for a pair is made only while no other handler is inside        *)
(* recordVote for that pair.  The requests are made within one reading of  *)
(* the clock.                                                              *)
(***************************************************************************)
InRecordVote(p) == pc[p] \in {"set_votes", "set_user_votes"}

ParRequest(p) ==
  \E user \in Users \cup {NoParam, Empty}, name \in Names \cup {NoParam},
     mood \in Moods \cup {"bad", NoParam, Empty}, date \in Dates :
       /\ \A q \in Handlers \ {p} :
            InRecordVote(q) => <<rec[q].odUserId, rec[q].date>> # <<user, date>>
       /\ VoteRequest(p, user, name, mood, date, now)

NextPar ==
  \E p \in Handlers :
    \/ ParRequest(p)
    \/ SetVotes(p)
    \/ SetUserVotes(p)
    \/ Respond(p)

SpecPar == Init /\ [][NextPar]_vars

(***************************************************************************)
(* SpecLong: SpecSeq started on a store that earlier recordVote calls have *)
(* filled: the first user voted glue on each of the 30 days before the     *)
(* first day of Dates, as many as getConsecutiveGlueCount reads, and goes  *)
(* on voting.                                                              *)
(***************************************************************************)
RECURSIVE DaysEndingAt(_, _)
DaysEndingAt(lastDay, n) ==
  IF n = 0 THEN {} ELSE {lastDay} \cup DaysEndingAt(PreviousDay(lastDay), n - 1)

FirstDay == CHOOSE d \in Dates : \A e \in Dates : DayNumber(d) <= DayNumber(e)

EarlierDays == DaysEndingAt(PreviousDay(FirstDay), HistoryWindow)

EarlierVote(d) == VoteRecord(UserOrder[1], "TestUser", "glue", d, 0)

InitLong ==
  /\ votes = [k \in {<<d, UserOrder[1]>> : d \in EarlierDays} |-> EarlierVote(k[1])]
  /\ user_votes = [k \in {<<UserOrder[1], d>> : d \in EarlierDays} |-> EarlierVote(k[2])]
  /\ now = 0
  /\ requests = 0
  /\ failures = 0
  /\ pc = [p \in Handlers |-> "idle"]
  /\ query = [p \in Handlers |-> NoQuery]
  /\ rec = [p \in Handlers |-> NoRecord]
  /\ result = [p \in Handlers |-> "none"]
  /\ response = NoResponse
  /\ scan = NoScan
  /\ embed = NoEmbed
  /\ chat = NoChat
  /\ gateway = NoGateway
  /\ wrote = [p \in Handlers |-> {}]
  /\ replaced = [p \in Handlers |-> FALSE]
  /\ lastMood = [k \in Pairs |-> "none"]

LongRequest(p) ==
  \E user \in {UserOrder[1], NoParam, Empty}, name \in Names \cup {NoParam},
     mood \in Moods \cup {"bad", NoParam, Empty}, date \in Dates,
     ts \in now..Min(now + 1, MaxClock) :
       VoteRequest(p, user, name, mood, date, ts)

NextLong ==
  \/ LongRequest(Writer)
  \/ SetVotes(Writer)
  \/ SetUserVotes(Writer)
  \/ Respond(Writer)

SpecLong == InitLong /\ [][NextLong]_vars

(***************************************************************************)
(* SpecRaw: SpecSeq with the date and name parameters as a client can send *)
(* them: the handler passes any date string and any name, the empty one    *)
(* included, on to recordVote.  MalformedDate is "2025-13-45".             *)
(***************************************************************************)
MalformedDate == <<2025, 13, 45>>

RawRequest(p) ==
  \E user \in Users \cup {NoParam, Empty}, name \in Names \cup {NoParam, Empty},
     mood \in Moods \cup {"bad", NoParam, Empty}, date \in Dates \cup {MalformedDate},
     ts \in now..Min(now + 1, MaxClock) :
       VoteRequest(p, user, name, mood, date, ts)

NextRaw ==
  \/ RawRequest(Writer)
  \/ SetVotes(Writer)
  \/ SetUserVotes(Writer)
  \/ Respond(Writer)

SpecRaw == Init /\ [][NextRaw]_vars

(***************************************************************************)
(* kv.list({prefix}): the values under a key prefix, in key order.  The    *)
(* last key part is a date under ["user_votes", userId] and a user id      *)
(* under ["votes", date]; the date strings order as LocaleCompare does.    *)
(***************************************************************************)
RECURSIVE DatesAscending(_)
DatesAscending(S) ==
  IF S = {} THEN <<>>
  ELSE LET m == CHOOSE d \in S : \A e \in S : LocaleCompare(d, e) <= 0
       IN  <<m>> \o DatesAscending(S \ {m})

RECURSIVE UsersAscending(_)
UsersAscending(S) ==
  IF S = {} THEN <<>>
  ELSE LET m == CHOOSE u \in S : \A v \in S : UserIndex(u) <= UserIndex(v)
       IN  <<m>> \o UsersAscending(S \ {m})

\* kv.list without the userId in the prefix: one record per stored date.
KvListUserVotesAnyUser(userId) ==
  LET ds == DatesAscending({k[2] : k \in DOMAIN user_votes})
  IN  [i \in 1..Len(ds) |->
         user_votes[<<CHOOSE u \in Users : <<u, ds[i]>> \in DOMAIN user_votes, ds[i]>>]]

KvListUserVotes(userId) ==
  LET ds == DatesAscending({k[2] : k \in {j \in DOMAIN user_votes : j[1] = userId}})
  IN  [i \in 1..Len(ds) |-> user_votes[<<userId, ds[i]>>]]

\* The for await loop left after its first entry.
KvListVotesFirstOnly(date) ==
  LET us == UsersAscending({k[2] : k \in {j \in DOMAIN votes : j[1] = date}})
  IN  [i \in 1..Min(Len(us), 1) |-> votes[<<date, us[i]>>]]

KvListVotes(date) ==
  LET us == UsersAscending({k[2] : k \in {j \in DOMAIN votes : j[1] = date}})
  IN  [i \in 1..Len(us) |-> votes[<<date, us[i]>>]]

RECURSIVE ConcatUserVotes(_)
ConcatUserVotes(us) ==
  IF us = <<>> THEN <<>>
  ELSE KvListUserVotes(Head(us)) \o ConcatUserVotes(Tail(us))

KvListAllUserVotes == ConcatUserVotes(UsersAscending({k[1] : k \in DOMAIN user_votes}))

(***************************************************************************)
(* records.sort((a, b) => b.date.localeCompare(a.date)): a stable sort by  *)
(* the comparator, written as an insertion sort.                           *)
(***************************************************************************)
ByDateAscending(a, b) == LocaleCompare(a.date, b.date)

ByDateDescending(a, b) == LocaleCompare(b.date, a.date)

RECURSIVE InsertSorted(_, _)
InsertSorted(x, s) ==
  IF s = <<>> THEN <<x>>
  ELSE IF ByDateDescending(Head(s), x) <= 0
       THEN <<Head(s)>> \o InsertSorted(x, Tail(s))
       ELSE <<x>> \o s

RECURSIVE SortRecords(_)
SortRecords(s) ==
  IF s = <<>> THEN <<>>
  ELSE InsertSorted(s[Len(s)], SortRecords(SubSeq(s, 1, Len(s) - 1)))

(***************************************************************************)
(* Array.prototype.slice(0, end): a negative end counts from the end of    *)
(* the array, an end beyond the length stops at the length.                *)
(***************************************************************************)
\* slice(0, end) taken as if end were the last index, not one past it.
SliceInclusive(s, end) ==
  LET stop == IF end < 0 THEN Max(Len(s) + end + 1, 0) ELSE Min(end + 1, Len(s))
  IN  SubSeq(s, 1, stop)

Slice(s, end) ==
  LET stop == IF end < 0 THEN Max(Len(s) + end, 0) ELSE Min(end, Len(s))
  IN  SubSeq(s, 1, stop)

GetUserHistory(userId, limit) == Slice(SortRecords(KvListUserVotes(userId)), limit)

GetVotesForDate(date) == KvListVotes(date)

(***************************************************************************)
(* getStats.  statsMap is a Map from date string to DailyStats, kept here  *)
(* as the sequence of its values in insertion order: Map.set on a key      *)
(* already present replaces the value in place.                            *)
(***************************************************************************)
ZeroStats(dateStr) == [date |-> dateStr, umazing |-> 0, ok |-> 0, glue |-> 0, total |-> 0]

MapHas(statsMap, key) == \E i \in 1..Len(statsMap) : statsMap[i].date = key

MapSet(statsMap, value) ==
  IF MapHas(statsMap, value.date)
  THEN [i \in 1..Len(statsMap) |->
          IF statsMap[i].date = value.date THEN value ELSE statsMap[i]]
  ELSE Append(statsMap, value)

\* do { statsMap.set(...); current.setDate(...) } while (current <= end)
RECURSIVE EnumerateDaysAtLeastOnce(_, _, _, _)
EnumerateDaysAtLeastOnce(tz, statsMap, current, end) ==
  LET next == SetDatePlusOne(tz, current)
      filled == MapSet(statsMap, ZeroStats(ToISODate(current)))
  IN  IF TimeAtOrBefore(next, end)
      THEN EnumerateDaysAtLeastOnce(tz, filled, next, end)
      ELSE filled

\* while (current <= end) { statsMap.set(...); current.setDate(...) }
RECURSIVE EnumerateDays(_, _, _, _)
EnumerateDays(tz, statsMap, current, end) ==
  IF TimeAtOrBefore(current, end)
  THEN EnumerateDays(tz, MapSet(statsMap, ZeroStats(ToISODate(current))),
                     SetDatePlusOne(tz, current), end)
  ELSE statsMap

\* kv.list({ prefix: ["votes"] }): every by-date record, in key order.
RECURSIVE ConcatVotes(_)
ConcatVotes(ds) ==
  IF ds = <<>> THEN <<>>
  ELSE KvListVotes(Head(ds)) \o ConcatVotes(Tail(ds))

KvListAllVotes == ConcatVotes(DatesAscending({k[1] : k \in DOMAIN votes}))

\* stats[record.mood]++ without stats.total++
CountMoodOnly(stats, mood) ==
  [stats EXCEPT ![mood] = @ + 1]

\* stats[record.mood]++; stats.total++
CountVote(stats, mood) ==
  [stats EXCEPT ![mood] = @ + 1, !.total = @ + 1]

\* The body of the for await loop, for one record.
Aggregate(statsMap, record, startDate, endDate) ==
  IF /\ LocaleCompare(record.date, startDate) >= 0
     /\ LocaleCompare(record.date, endDate) <= 0
     /\ MapHas(statsMap, record.date)
  THEN [i \in 1..Len(statsMap) |->
          IF statsMap[i].date = record.date
          THEN CountVote(statsMap[i], record.mood)
          ELSE statsMap[i]]
  ELSE statsMap

RECURSIVE AggregateAll(_, _, _, _)
AggregateAll(statsMap, records, startDate, endDate) ==
  IF records = <<>> THEN statsMap
  ELSE AggregateAll(Aggregate(statsMap, Head(records), startDate, endDate),
                    Tail(records), startDate, endDate)

\* Array.from(statsMap.values()).sort((a, b) => a.date.localeCompare(b.date))
RECURSIVE InsertStats(_, _)
InsertStats(x, s) ==
  IF s = <<>> THEN <<x>>
  ELSE IF LocaleCompare(Head(s).date, x.date) <= 0
       THEN <<Head(s)>> \o InsertStats(x, Tail(s))
       ELSE <<x>> \o s

RECURSIVE SortStats(_)
SortStats(s) ==
  IF s = <<>> THEN <<>>
  ELSE InsertStats(s[Len(s)], SortStats(SubSeq(s, 1, Len(s) - 1)))

GetStats(tz, startDate, endDate) ==
  SortStats(AggregateAll(EnumerateDays(tz, <<>>, DateParse(startDate), DateParse(endDate)),
                         KvListAllVotes, startDate, endDate))

(***************************************************************************)
(* getConsecutiveGlueCount: the for loop over getUserHistory(userId, 30),  *)
(* count++ on glue and break on anything else.                             *)
(***************************************************************************)
RECURSIVE CountAllGlue(_)
CountAllGlue(history) ==
  IF history = <<>> THEN 0
  ELSE (IF Head(history).mood = "glue" THEN 1 ELSE 0) + CountAllGlue(Tail(history))

RECURSIVE CountLeadingGlue(_)
CountLeadingGlue(history) ==
  IF history = <<>> THEN 0
  ELSE IF Head(history).mood = "glue" THEN 1 + CountLeadingGlue(Tail(history))
  ELSE 0

\* The loop run over the whole history instead of getUserHistory(userId, 30).
GetConsecutiveGlueCountUncapped(userId) ==
  CountLeadingGlue(SortRecords(KvListUserVotes(userId)))

GetConsecutiveGlueCount(userId) == CountLeadingGlue(GetUserHistory(userId, HistoryWindow))

(***************************************************************************)
(* getUsersAtRisk: userIds is a Set filled from the odUserId of every      *)
(* value under ["user_votes"], so it iterates in first-insertion order;    *)
(* then one getUserHistory(userId, threshold) per user whose count         *)
(* reaches the threshold.                                                  *)
(***************************************************************************)
RECURSIVE DistinctUserIds(_, _)
DistinctUserIds(entries, seen) ==
  IF entries = <<>> THEN seen
  ELSE IF \E i \in 1..Len(seen) : seen[i] = Head(entries).odUserId
       THEN DistinctUserIds(Tail(entries), seen)
       ELSE DistinctUserIds(Tail(entries), Append(seen, Head(entries).odUserId))

RECURSIVE CheckEachUserStrict(_, _)
CheckEachUserStrict(userIds, threshold) ==
  IF userIds = <<>> THEN <<>>
  ELSE IF GetConsecutiveGlueCount(Head(userIds)) > threshold
       THEN <<GetUserHistory(Head(userIds), threshold)>>
              \o CheckEachUserStrict(Tail(userIds), threshold)
       ELSE CheckEachUserStrict(Tail(userIds), threshold)

RECURSIVE CheckEachUser(_, _)
CheckEachUser(userIds, threshold) ==
  IF userIds = <<>> THEN <<>>
  ELSE IF GetConsecutiveGlueCount(Head(userIds)) >= threshold
       THEN <<GetUserHistory(Head(userIds), threshold)>>
              \o CheckEachUser(Tail(userIds), threshold)
       ELSE CheckEachUser(Tail(userIds), threshold)

GetUsersAtRisk(threshold) ==
  CheckEachUser(DistinctUserIds(KvListAllUserVotes, <<>>), threshold)

(***************************************************************************)
(* GET /check-alerts with config.glueAlertThreshold = threshold: the       *)
(* usersAtRisk array of the JSON response, one entry per returned history  *)
(* (userHistory[0] of an empty history throws, which the handler answers   *)
(* with status 500).                                                       *)
(***************************************************************************)
CheckAlerts(threshold) ==
  LET atRisk == GetUsersAtRisk(threshold)
  IN  IF \E i \in 1..Len(atRisk) : atRisk[i] = <<>>
      THEN [status |-> 500, usersAtRisk |-> <<>>]
      ELSE [status |-> 200,
            usersAtRisk |-> [i \in 1..Len(atRisk) |->
                               [user |-> atRisk[i][1].odUserName,
                                odUserId |-> atRisk[i][1].odUserId,
                                consecutiveDays |-> Len(atRisk[i])]]]

(***************************************************************************)
(* The Daily Wellness Check job: the (userName, day count) pairs handed to *)
(* buildAlertEmbed, in order, up to the first history that makes           *)
(* userHistory[0].odUserName throw.                                        *)
(***************************************************************************)
RECURSIVE WellnessAlerts(_)
WellnessAlerts(atRisk) ==
  IF atRisk = <<>> \/ Head(atRisk) = <<>> THEN <<>>
  ELSE <<[userName |-> Head(atRisk)[1].odUserName, consecutiveDays |-> Len(Head(atRisk))]>>
         \o WellnessAlerts(Tail(atRisk))

WellnessCheck(threshold) == WellnessAlerts(GetUsersAtRisk(threshold))

(***************************************************************************)
(* The callers of getStats: GET /stats and GET /trigger_stats              *)
(* (src/src/server.ts) and the Weekly Stats Summary job of the scheduler.  *)
(* Each takes endDate = new Date(), moves a second Date back by `days`     *)
(* local days with setDate, and passes the UTC calendar days of the two.   *)
(***************************************************************************)
MaxDays == 2
WeeklyDays == 7

\* The instants at which a caller may run: 06:00 and 18:00 UTC of a day.
Todays == {[date |-> d, hour |-> h] : d \in Dates, h \in {6, 18}}

\* The job "0 6 * * SUN" fires on Sunday 2025-11-02 at 06:00 UTC.
WeeklyRun == [date |-> <<2025, 11, 2>>, hour |-> 6]

RECURSIVE DaysBefore(_, _)
DaysBefore(d, n) == IF n = 0 THEN d ELSE DaysBefore(PreviousDay(d), n - 1)

\* startDate.setDate(startDate.getDate() - days): `days` local days earlier,
\* same local time.
SetDateMinus(tz, t, days) ==
  LET l == LocalTime(tz, t)
  IN  FromLocalTime(tz, [date |-> DaysBefore(l.date, days), hour |-> l.hour])

\* The range the handlers pass to getStats, and what they render.
StatsRange(tz, today, days) ==
  [startDate |-> ToISODate(SetDateMinus(tz, today, days)), endDate |-> ToISODate(today)]

StatsRequest(tz, today, days) ==
  LET range == StatsRange(tz, today, days)
  IN  GetStats(tz, range.startDate, range.endDate)

WeeklyStatsSummary(tz) == StatsRequest(tz, WeeklyRun, WeeklyDays)

(***************************************************************************)
(* SpecReads: SpecSeq with the read methods of the storage service called  *)
(* between the votes.  A call runs while the handler is idle and leaves    *)
(* in response the method's name and the size of what it returned (the     *)
(* length of the sequence, or the count); each method only iterates        *)
(* kv.list.  The votes are made within one reading of the clock.           *)
(***************************************************************************)
Returns(p, op, size) ==
  /\ pc[p] = "idle"
  /\ pc' = [pc EXCEPT ![p] = "responded"]
  /\ result' = [result EXCEPT ![p] = "read"]
  /\ response' = [op |-> op, size |-> size]
  /\ UNCHANGED <<discord, votes, user_votes, now, requests, failures, query, rec, scan, wrote,
                 replaced, lastMood>>

GetUserHistoryCall(p) ==
  \E userId \in Users, limit \in {MaxLimit, DefaultLimit} :
    Returns(p, "getUserHistory", Len(GetUserHistory(userId, limit)))

GetVotesForDateCall(p) ==
  \E date \in Dates : Returns(p, "getVotesForDate", Len(GetVotesForDate(date)))

GetStatsCall(p) ==
  \E tz \in TimeZones, startDate \in Dates, endDate \in Dates :
    Returns(p, "getStats", Len(GetStats(tz, startDate, endDate)))

GetConsecutiveGlueCountCall(p) ==
  \E userId \in Users :
    Returns(p, "getConsecutiveGlueCount", GetConsecutiveGlueCount(userId))

GetUsersAtRiskCall(p) ==
  \E threshold \in Thresholds :
    Returns(p, "getUsersAtRisk", Len(GetUsersAtRisk(threshold)))

ReadsRequest(p) ==
  \E user \in Users \cup {NoParam, Empty}, name \in Names \cup {NoParam},
     mood \in Moods \cup {"bad", NoParam, Empty}, date \in Dates :
       VoteRequest(p, user, name, mood, date, now)

NextReads ==
  \/ ReadsRequest(Writer)
  \/ SetVotes(Writer)
  \/ SetUserVotes(Writer)
  \/ Respond(Writer)
  \/ GetUserHistoryCall(Writer)
  \/ GetVotesForDateCall(Writer)
  \/ GetStatsCall(Writer)
  \/ GetConsecutiveGlueCountCall(Writer)
  \/ GetUsersAtRiskCall(Writer)

SpecReads == Init /\ [][NextReads]_vars

(***************************************************************************)
(* SpecScan: getUsersAtRisk as the code runs it, one step per await, while *)
(* the writer records votes between its steps:                             *)
(*   ScanUsers    the kv.list over ["user_votes"] that fills userIds;      *)
(*   ScanCheck    await getConsecutiveGlueCount(userId) and the test       *)
(*                count >= threshold, for the next userId;                 *)
(*   ScanHistory  await getUserHistory(userId, threshold) and              *)
(*                atRisk.push(history);                                    *)
(*   ScanReturn   return atRisk, kept in scan.atRisk until the caller is   *)
(*                done with it (ScanDone).                                 *)
(* The votes are made within one reading of the clock.                     *)
(***************************************************************************)
ScanFrame ==
  UNCHANGED <<discord, votes, user_votes, now, requests, failures, pc, query, rec, result, response,
              wrote, replaced, lastMood>>

ScanUsers(threshold) ==
  /\ scan.pc = "idle"
  /\ scan' = [pc |-> "check", threshold |-> threshold,
              userIds |-> DistinctUserIds(KvListAllUserVotes, <<>>), atRisk |-> <<>>]
  /\ ScanFrame

ScanCheck ==
  /\ scan.pc = "check"
  /\ scan.userIds # <<>>
  /\ IF GetConsecutiveGlueCount(Head(scan.userIds)) >= scan.threshold
     THEN scan' = [scan EXCEPT !.pc = "history"]
     ELSE scan' = [scan EXCEPT !.userIds = Tail(@)]
  /\ ScanFrame

ScanHistory ==
  /\ scan.pc = "history"
  /\ scan' = [scan EXCEPT !.pc = "check",
                          !.atRisk = Append(@, GetUserHistory(Head(scan.userIds),
                                                              scan.threshold)),
                          !.userIds = Tail(@)]
  /\ ScanFrame

ScanReturn ==
  /\ scan.pc = "check"
  /\ scan.userIds = <<>>
  /\ scan' = [scan EXCEPT !.pc = "returned"]
  /\ ScanFrame

ScanDone ==
  /\ scan.pc = "returned"
  /\ scan' = NoScan
  /\ ScanFrame

NextScan ==
  \/ ReadsRequest(Writer)
  \/ SetVotes(Writer)
  \/ SetUserVotes(Writer)
  \/ Respond(Writer)
  \/ \E threshold \in Thresholds : ScanUsers(threshold)
  \/ ScanCheck
  \/ ScanHistory
  \/ ScanReturn
  \/ ScanDone

SpecScan == Init /\ [][NextScan]_vars

(***************************************************************************)
(* buildStatsEmbed (src/bot_actions.ts): the Discord embed of a DailyStats *)
(* sequence.  The sequence is an input: one entry per day, each with its   *)
(* three counters and their total.                                         *)
(***************************************************************************)
Gray == 8421504
Green == 65280
Red == 16739179
Yellow == 16763904
RecentDaysShown == 7
BarLength == 10

StatsTitle == "Mood Stats"

DailyStatsOf(dateStr, umazing, ok, glue) ==
  [date |-> dateStr, umazing |-> umazing, ok |-> ok, glue |-> glue,
   total |-> umazing + ok + glue]

Counts == (0..MaxCount) \X (0..MaxCount) \X (0..MaxCount)

StatsDays == DatesAscending(Dates)

\* The DailyStats sequences of n days.
DailyStatsSeqs(n) ==
  LET days == StatsDays
  IN  {[i \in 1..n |-> DailyStatsOf(days[i], c[i][1], c[i][2], c[i][3])] :
         c \in [1..n -> Counts]}

\* stats.reduce((acc, day) => ..., { umazing: 0, ok: 0, glue: 0, total: 0 })
RECURSIVE Reduce(_, _)
Reduce(stats, acc) ==
  IF stats = <<>> THEN acc
  ELSE Reduce(Tail(stats), [umazing |-> acc.umazing + Head(stats).umazing,
                            ok |-> acc.ok + Head(stats).ok,
                            glue |-> acc.glue + Head(stats).glue,
                            total |-> acc.total + Head(stats).total])

\* Math.round(a / b) for a >= 0 and b > 0: halves round up.
MathRound(a, b) == (2 * a + b) \div (2 * b)

BuildBar(count, total) ==
  IF total = 0 THEN [text |-> "No data", filled |-> 0, empty |-> 0, pct |-> 0, count |-> 0]
  ELSE LET pct == MathRound(count * 100, total)
           filled == MathRound(pct, 10)
       IN  [text |-> "bar", filled |-> filled, empty |-> BarLength - filled,
            pct |-> pct, count |-> count]

DayEmoji(day) ==
  IF day.umazing >= day.ok /\ day.umazing >= day.glue THEN "umazing"
  ELSE IF day.glue > day.ok THEN "glue"
  ELSE "ok"

\* stats.slice(-7).map(...)
RecentDays(stats) ==
  LET first == Max(1, Len(stats) - RecentDaysShown + 1)
      recent == SubSeq(stats, first, Len(stats))
  IN  [i \in 1..Len(recent) |->
         [date |-> recent[i].date, emoji |-> DayEmoji(recent[i]), total |-> recent[i].total]]

EmbedFields(stats, totals) ==
  LET bars == <<[name |-> "Umazing", bar |-> BuildBar(totals.umazing, totals.total), days |-> <<>>],
                [name |-> "Ok", bar |-> BuildBar(totals.ok, totals.total), days |-> <<>>],
                [name |-> "Glue", bar |-> BuildBar(totals.glue, totals.total), days |-> <<>>]>>
  IN  IF Len(stats) > 1
      THEN Append(bars, [name |-> "Recent Days", bar |-> BuildBar(0, 0),
                         days |-> RecentDays(stats)])
      ELSE bars

\* A green embed only when umazing strictly leads.
EmbedColorStrict(totals) ==
  IF totals.total > 0
  THEN IF totals.umazing > totals.ok /\ totals.umazing > totals.glue THEN Green
       ELSE IF totals.glue > totals.ok THEN Red
       ELSE Yellow
  ELSE Gray

EmbedColor(totals) ==
  IF totals.total > 0
  THEN IF totals.umazing >= totals.ok /\ totals.umazing >= totals.glue THEN Green
       ELSE IF totals.glue > totals.ok THEN Red
       ELSE Yellow
  ELSE Gray

BuildStatsEmbed(stats, title) ==
  LET totals == Reduce(stats, [umazing |-> 0, ok |-> 0, glue |-> 0, total |-> 0])
  IN  [title |-> title,
       description |-> [text |-> "Total responses: ", total |-> totals.total],
       color |-> EmbedColor(totals),
       fields |-> EmbedFields(stats, totals)]

(***************************************************************************)
(* SpecEmbed: a caller obtains a DailyStats sequence, builds the embed and *)
(* posts it.                                                               *)
(***************************************************************************)
StatsReady ==
  /\ embed.pc = "idle"
  /\ \E n \in 0..Min(MaxStatsLen, Cardinality(Dates)) :
       \E stats \in DailyStatsSeqs(n) :
         embed' = [pc |-> "stats", stats |-> stats, payload |-> NoPayload]
  /\ UNCHANGED <<storage, chat, gateway>>

BuildStatsEmbedCall ==
  /\ embed.pc = "stats"
  /\ embed' = [embed EXCEPT !.pc = "built",
                            !.payload = BuildStatsEmbed(embed.stats, StatsTitle)]
  /\ UNCHANGED <<storage, chat, gateway>>

SendEmbed ==
  /\ embed.pc = "built"
  /\ embed' = NoEmbed
  /\ UNCHANGED <<storage, chat, gateway>>

NextEmbed ==
  \/ StatsReady
  \/ BuildStatsEmbedCall
  \/ SendEmbed

SpecEmbed == Init /\ [][NextEmbed]_vars

(***************************************************************************)
(* handleMessage (src/bot_actions.ts), which the gateway calls for every   *)
(* MESSAGE_CREATE dispatch.  One step per await:                           *)
(*   HandleMessage      the call, with the dispatched message;             *)
(*   GetBotUserId       await getBotUserId(), then the synchronous checks  *)
(*                      up to the next await;                              *)
(*   SaveContext        await saveContext(...), getContext(...);           *)
(*   GenerateReply      await generateReplyFromMessages(ctx);              *)
(*   SendFallback, SendReply   await sendMessage(...).                     *)
(* A message the bot posted comes back from Discord as a MESSAGE_CREATE    *)
(* whose author is the bot: chat.inbox holds those not yet dispatched.     *)
(* chat.sent lists what the current call sent, each with the author of the *)
(* message it answers; chat.own tells whether the message of the call is   *)
(* one the bot posted, chat.mentioned whether it mentioned the bot.        *)
(***************************************************************************)
MessageMentionsBot(message, botId) ==
  \/ \E i \in 1..Len(message.mentions) :
       \/ message.mentions[i].id = botId
       \/ message.mentions[i].username = botId
  \/ MentionToken(botId) \in message.content
  \/ NickMentionToken(botId) \in message.content

\* Only the bot's own id is ignored, not the bot flag.
IgnoresSelfOnly(author, botId) ==
  /\ author.present
  /\ author.id # NoParam /\ author.id = botId

IgnoresAuthor(author, botId) ==
  /\ author.present
  /\ \/ author.bot
     \/ author.id # NoParam /\ author.id = botId

\* message["channel_id"] ?? message["channelId"] ?? CHANNEL_ID
ChannelOf(message, CHANNEL_ID) ==
  IF message.channel_id # NoParam THEN message.channel_id ELSE CHANNEL_ID

\* The MESSAGE_CREATE that Discord dispatches for a message the bot posted.
OwnMessage(channelId, content) ==
  [author |-> [present |-> TRUE, id |-> BotId, bot |-> TRUE],
   channel_id |-> channelId,
   mentions |-> IF MentionToken(BotId) \in content \/ NickMentionToken(BotId) \in content
                THEN <<BotMention>> ELSE <<>>,
   content |-> content]

ChatFrame == UNCHANGED <<storage, embed, gateway>>

Handled(outcome) ==
  [chat EXCEPT !.pc = "idle", !.outcome = outcome, !.message = NoMessage,
               !.botId = NoParam, !.channelId = NoParam, !.text = {},
               !.mentioned = MessageMentionsBot(chat.message, BotId)]

HandleMessage ==
  /\ chat.pc = "idle"
  /\ \/ /\ chat.inbox # <<>>
        /\ chat' = [chat EXCEPT !.pc = "getBotUserId", !.message = Head(chat.inbox),
                                !.inbox = Tail(@), !.sent = <<>>, !.own = TRUE]
     \/ /\ Len(chat.inbox) < MaxPending
        /\ \E message \in Messages :
             chat' = [chat EXCEPT !.pc = "getBotUserId", !.message = message, !.sent = <<>>,
                                  !.own = FALSE]
  /\ ChatFrame

GetBotUserId ==
  /\ chat.pc = "getBotUserId"
  /\ \E botId \in {BotId, NoParam}, CHANNEL_ID \in Channels \cup {NoParam} :
       LET channelId == ChannelOf(chat.message, CHANNEL_ID)
       IN  IF botId = NoParam THEN chat' = Handled("noBotId")
           ELSE IF IgnoresAuthor(chat.message.author, botId) THEN chat' = Handled("ignored")
           ELSE IF channelId = NoParam THEN chat' = Handled("noChannel")
           ELSE IF MessageMentionsBot(chat.message, botId)
                THEN chat' = [chat EXCEPT !.pc = "saveContext", !.botId = botId,
                                          !.channelId = channelId]
           ELSE chat' = Handled("notMentioned")
  /\ ChatFrame

SaveContext ==
  /\ chat.pc = "saveContext"
  /\ chat' = [chat EXCEPT !.pc = "generateReply"]
  /\ ChatFrame

GenerateReply ==
  /\ chat.pc = "generateReply"
  /\ \/ chat' = [chat EXCEPT !.pc = "sendFallback"]
     \/ \E text \in Contents : chat' = [chat EXCEPT !.pc = "sendReply", !.text = text]
  /\ ChatFrame

\* sendMessage(channelId, content), then the rest of handleMessage.
SendMessage(content, outcome) ==
  \E posted \in BOOLEAN :
    LET sent == Append(chat.sent, [channelId |-> chat.channelId, content |-> content,
                                   inReplyTo |-> chat.message.author])
        inbox == IF posted THEN Append(chat.inbox, OwnMessage(chat.channelId, content))
                 ELSE chat.inbox
    IN  chat' = [Handled(outcome) EXCEPT !.sent = sent, !.inbox = inbox]

SendFallback ==
  /\ chat.pc = "sendFallback"
  /\ SendMessage({}, "fallback")
  /\ ChatFrame

SendReply ==
  /\ chat.pc = "sendReply"
  /\ SendMessage(chat.text, "replied")
  /\ ChatFrame

NextChat ==
  \/ HandleMessage
  \/ GetBotUserId
  \/ SaveContext
  \/ GenerateReply
  \/ SendFallback
  \/ SendReply

SpecChat == Init /\ [][NextChat]_vars

(***************************************************************************)
(* The gateway client (src/discord_gateway.ts).  Every callback is one     *)
(* step: the handlers of a socket's open, message and close events, the    *)
(* heartbeat interval's callback and the reconnect timeout's.              *)
(*   gateway.sock[s]          readyState of the s-th socket created;       *)
(*   gateway.ws               the variable ws: the latest socket;          *)
(*   gateway.heartbeatHandle  "undefined", or whether the timer it names   *)
(*                            is still active or was cleared;              *)
(*   gateway.timers           number of active interval timers;            *)
(*   gateway.reconnects       number of pending setTimeout(connect, 5000); *)
(*   gateway.received         the last numeric s any payload carried;      *)
(*   gateway.beat             the last heartbeat sent, with the state it   *)
(*                            was sent in;                                 *)
(*   gateway.clientClosed     the sockets the client called close() on.    *)
(***************************************************************************)
OpDispatch == 0
OpHeartbeat == 1
OpIdentify == 2
OpInvalidSession == 9
OpHello == 10
OpHeartbeatAck == 11
Ops == {OpDispatch, OpInvalidSession, OpHello, OpHeartbeatAck}
Sockets == 1..MaxSockets
SeqNumbers == 0..MaxSeq

GatewayFrame == UNCHANGED <<storage, embed, chat>>

\* connect(): ws = new WebSocket(GATEWAY_URL)
Connect(g) ==
  [g EXCEPT !.ws = g.ws + 1, !.sock = [g.sock EXCEPT ![g.ws + 1] = "CONNECTING"]]

\* clearInterval(heartbeatHandle), guarded by `if (heartbeatHandle)`.
ClearHeartbeat(g) ==
  IF g.heartbeatHandle = "active"
  THEN [g EXCEPT !.timers = @ - 1, !.heartbeatHandle = "cleared"]
  ELSE g

\* ws?.send(...): delivered only on an OPEN socket.
Identify(g) ==
  IF g.ws # 0 /\ g.sock[g.ws] = "OPEN" THEN [g EXCEPT !.identified = g.ws] ELSE g

\* ws?.close()
Close(g) ==
  IF g.ws # 0 /\ g.sock[g.ws] \in {"CONNECTING", "OPEN"}
  THEN [g EXCEPT !.sock = [g.sock EXCEPT ![g.ws] = "CLOSING"],
                 !.clientClosed = @ \cup {g.ws}]
  ELSE g

\* The HELLO branch without the clearInterval of the previous timer.
OnHelloKeepsTimer(g) ==
  Identify([g EXCEPT !.timers = @ + 1, !.heartbeatHandle = "active"])

\* op === 10 && d
OnHello(g) ==
  LET cleared == ClearHeartbeat(g)
  IN  Identify([cleared EXCEPT !.timers = @ + 1, !.heartbeatHandle = "active"])

StartGateway ==
  /\ gateway.pc = "init"
  /\ \E DISCORD_TOKEN \in BOOLEAN :
       IF DISCORD_TOKEN
       THEN gateway' = Connect([gateway EXCEPT !.pc = "running"])
       ELSE gateway' = [gateway EXCEPT !.pc = "off"]
  /\ GatewayFrame

OnOpen(s) ==
  /\ gateway.sock[s] = "CONNECTING"
  /\ gateway' = [gateway EXCEPT !.sock = [gateway.sock EXCEPT ![s] = "OPEN"]]
  /\ GatewayFrame

\* ws.onmessage for a payload {op, s, d}; whether a socket that is closing
\* still delivers messages is up to the runtime.
OnMessage(s) ==
  /\ gateway.sock[s] \in {"OPEN", "CLOSING"}
  /\ \E op \in Ops, number \in SeqNumbers \cup {NullSeq}, d \in BOOLEAN :
       LET g == IF number # NullSeq
                THEN [gateway EXCEPT !.seq = number, !.received = number]
                ELSE gateway
       IN  IF op = OpHello /\ d THEN gateway' = OnHello(g)
           ELSE IF op = OpDispatch /\ d THEN gateway' = g
           ELSE IF op = OpInvalidSession THEN gateway' = Close(g)
           ELSE gateway' = g
  /\ GatewayFrame

\* The callback of setInterval.
Heartbeat ==
  /\ gateway.timers > 0
  /\ IF gateway.ws # 0 /\ gateway.sock[gateway.ws] = "OPEN"
     THEN gateway' = [gateway EXCEPT !.beat = [socket |-> gateway.ws,
                                               readyState |-> gateway.sock[gateway.ws],
                                               d |-> gateway.seq,
                                               received |-> gateway.received]]
     ELSE gateway' = gateway
  /\ GatewayFrame

\* The close handler that schedules no reconnect.
OnCloseNoReconnect(s) ==
  /\ gateway.sock[s] \in {"CONNECTING", "OPEN", "CLOSING"}
  /\ gateway' = [ClearHeartbeat(gateway) EXCEPT !.sock = [gateway.sock EXCEPT ![s] = "CLOSED"]]
  /\ GatewayFrame

\* ws.onclose: a connection that failed, was closed by the peer, or whose
\* close() completed.
OnClose(s) ==
  /\ gateway.sock[s] \in {"CONNECTING", "OPEN", "CLOSING"}
  /\ gateway' = [ClearHeartbeat(gateway) EXCEPT
                   !.sock = [gateway.sock EXCEPT ![s] = "CLOSED"],
                   !.reconnects = @ + 1]
  /\ GatewayFrame

\* The callback of setTimeout(connect, 5000).
ReconnectTimeout ==
  /\ gateway.reconnects > 0
  /\ gateway.ws < MaxSockets
  /\ gateway' = Connect([gateway EXCEPT !.reconnects = @ - 1])
  /\ GatewayFrame

CloseCompletes == \E s \in Sockets : gateway.sock[s] = "CLOSING" /\ OnClose(s)

NextGateway ==
  \/ StartGateway
  \/ \E s \in Sockets : OnOpen(s)
  \/ \E s \in Sockets : OnMessage(s)
  \/ Heartbeat
  \/ \E s \in Sockets : OnClose(s)
  \/ ReconnectTimeout

SpecGateway == Init /\ [][NextGateway]_vars

\* Timers fire and a close() completes: the runtime's event loop sees to it.
SpecGatewayFair ==
  /\ Init
  /\ [][NextGateway]_vars
  /\ WF_vars(ReconnectTimeout)
  /\ WF_vars(CloseCompletes)

TypeOK ==
  /\ scan.pc \in {"idle", "check", "history", "returned"}
  /\ embed.pc \in {"idle", "stats", "built"}
  /\ chat.pc \in {"idle", "getBotUserId", "saveContext", "generateReply", "sendFallback",
                  "sendReply"}
  /\ gateway.pc \in {"init", "off", "running"}
  /\ gateway.ws \in 0..MaxSockets
  /\ now \in 0..MaxClock
  /\ requests \in 0..MaxRequests
  /\ failures \in 0..MaxFailures
  /\ \A p \in Handlers : pc[p] \in {"idle", "set_votes", "set_user_votes", "responded"}
  /\ \A p \in Handlers :
       /\ query[p].user \in Users \cup {NoParam, Empty}
       /\ query[p].mood \in Moods \cup {"bad", NoParam, Empty}
  /\ DOMAIN votes \subseteq (Dates \cup EarlierDays \cup {MalformedDate}) \X Users
  /\ DOMAIN user_votes \subseteq Users \X (Dates \cup EarlierDays \cup {MalformedDate})

(***************************************************************************)
(* Vocabulary of the properties.                                           *)
(***************************************************************************)
Range(s) == {s[i] : i \in 1..Len(s)}

BothIndexes == {"votes", "user_votes"}

\* The dates on which userId has a record in the by-user index.
StoredDates(userId) == {d \in Dates : <<userId, d>> \in DOMAIN user_votes}

\* Calendar order of two dates.
Later(a, b) == DayNumber(a) > DayNumber(b)

\* The by-date and the by-user index hold the same keys and the same records.
IndexesAgree ==
  \A u \in Users, d \in Dates :
    /\ <<d, u>> \in DOMAIN votes <=> <<u, d>> \in DOMAIN user_votes
    /\ <<d, u>> \in DOMAIN votes => votes[<<d, u>>] = user_votes[<<u, d>>]

(***************************************************************************)
(* C1: when no recordVote is running (calls ran one at a time), every      *)
(* (userId, date) pair has at most one record in getVotesForDate(date) and *)
(* in the user's history; it has exactly one if a recordVote for the pair  *)
(* has completed, and that record holds the mood of the last such call.    *)
(***************************************************************************)
C1_OneVotePerUserAndDate ==
  Quiescent =>
    \A u \in Users, d \in Dates :
      LET byDate == GetVotesForDate(d)
          byUser == GetUserHistory(u, DefaultLimit)
          forUser == {i \in 1..Len(byDate) : byDate[i].odUserId = u}
          forDate == {i \in 1..Len(byUser) : byUser[i].date = d}
      IN  IF lastMood[<<u, d>>] = "none"
          THEN forUser = {} /\ forDate = {}
          ELSE /\ Cardinality(forUser) = 1
               /\ Cardinality(forDate) = 1
               /\ \A i \in forUser : byDate[i].mood = lastMood[<<u, d>>]
               /\ \A i \in forDate : byUser[i].mood = lastMood[<<u, d>>]

\* A recordVote has just returned after replacing a vote of another mood.
C1_Witness ==
  \E p \in Handlers :
    /\ pc[p] = "responded" /\ result[p] = "ok" /\ replaced[p]
    /\ lastMood[<<rec[p].odUserId, rec[p].date>>] = rec[p].mood
    /\ Len(GetVotesForDate(rec[p].date)) = 1

(***************************************************************************)
(* C2: when no recordVote is running (calls ran one at a time and each     *)
(* completed), a key exists in the by-date index iff it exists in the      *)
(* by-user index, both hold the same record (mood, timestamp, userName),   *)
(* and getVotesForDate and getUserHistory return that same record.         *)
(***************************************************************************)
C2_IndexConsistency ==
  Quiescent =>
    /\ IndexesAgree
    /\ \A u \in Users, d \in Dates :
         {r \in Range(GetVotesForDate(d)) : r.odUserId = u}
           = {r \in Range(GetUserHistory(u, DefaultLimit)) : r.date = d}

\* Two recordVote calls have completed and two votes are stored.
C2_Witness ==
  /\ Quiescent
  /\ Cardinality(DOMAIN votes) = 2
  /\ Cardinality(DOMAIN user_votes) = 2
  /\ \E p \in Handlers : pc[p] = "responded" /\ result[p] = "ok"

(***************************************************************************)
(* C3: once concurrent recordVote calls have all completed (no kv.set      *)
(* failed), the by-date index and the by-user index hold the same record   *)
(* for every (userId, date) pair.                                          *)
(***************************************************************************)
C3_ConcurrentWritesAgree ==
  Quiescent =>
    \A u \in Users, d \in Dates :
      (<<d, u>> \in DOMAIN votes /\ <<u, d>> \in DOMAIN user_votes)
        => votes[<<d, u>>] = user_votes[<<u, d>>]

(***************************************************************************)
(* C4: a recordVote that has returned reports success (and GET /vote       *)
(* answers 200) only if it has written both indexes, which then hold its   *)
(* record; when a kv.set failed it reports the error (GET /vote answers    *)
(* 500) and has written nothing more.                                      *)
(***************************************************************************)
C4_FailureReachesCaller ==
  \A p \in Handlers :
    (pc[p] = "responded" /\ result[p] # "rejected") =>
      /\ result[p] = "ok" <=> wrote[p] = BothIndexes
      /\ VoteStatus(result[p]) = 200 <=> wrote[p] = BothIndexes
      /\ result[p] = "ok" =>
           /\ <<rec[p].date, rec[p].odUserId>> \in DOMAIN votes
           /\ <<rec[p].odUserId, rec[p].date>> \in DOMAIN user_votes
           /\ votes[<<rec[p].date, rec[p].odUserId>>] = rec[p]
           /\ user_votes[<<rec[p].odUserId, rec[p].date>>] = rec[p]
      /\ wrote[p] # BothIndexes => result[p] \in {"error", "interrupted"}

\* The second kv.set of a recordVote failed and the caller got the error.
C4_Witness ==
  \E p \in Handlers :
    /\ pc[p] = "responded" /\ result[p] = "error" /\ wrote[p] = {"votes"}
    /\ VoteStatus(result[p]) = 500

(***************************************************************************)
(* C5: after a recordVote that failed or was interrupted, the by-date      *)
(* index and the by-user index still hold identical content.               *)
(***************************************************************************)
C5_ConsistentAfterFailedWrite ==
  \A p \in Handlers :
    (pc[p] = "responded" /\ result[p] \in {"error", "interrupted"}) => IndexesAgree

(***************************************************************************)
(* C6: getUserHistory(user, k) returns min(k, N) of the user's N stored    *)
(* records, each once, in strictly descending date order, and every record *)
(* left out is older than every record returned; without a limit it        *)
(* returns what limit 30 returns.                                          *)
(***************************************************************************)
C6_HistoryOrderedAndTruncated ==
  \A u \in Users, k \in Limits \cup {DefaultLimit} :
    LET h == GetUserHistory(u, k)
        N == Cardinality(StoredDates(u))
        returned == {h[i].date : i \in 1..Len(h)}
    IN  /\ Len(h) = Min(k, N)
        /\ \A i \in 1..Len(h) :
             /\ h[i].date \in StoredDates(u)
             /\ h[i] = user_votes[<<u, h[i].date>>]
        /\ \A i, j \in 1..Len(h) : i < j => Later(h[i].date, h[j].date)
        /\ \A d \in StoredDates(u) \ returned : \A e \in returned : Later(e, d)

\* A user has two votes: limit 1 keeps the later one, no limit keeps both.
C6_Witness ==
  \E u \in Users :
    /\ StoredDates(u) = {<<2025, 11, 2>>, <<2025, 11, 3>>}
    /\ Len(GetUserHistory(u, 1)) = 1
    /\ GetUserHistory(u, 1)[1].date = <<2025, 11, 3>>
    /\ Len(GetUserHistory(u, DefaultLimit)) = 2
    /\ GetUserHistory(u, DefaultLimit)[2].date = <<2025, 11, 2>>

(***************************************************************************)
(* C7: getConsecutiveGlueCount(user) is the number of leading glue records *)
(* of the user's history, most recent first (the 30 most recent votes): it *)
(* is the largest k such that the k most recent votes are all glue.        *)
(***************************************************************************)
Rank(u, d) == Cardinality({e \in StoredDates(u) : ~Later(d, e)})

LeadingGlue(u, k) ==
  \A d \in StoredDates(u) : Rank(u, d) <= k => user_votes[<<u, d>>].mood = "glue"

C7_CountsLeadingGlue ==
  \A u \in Users :
    LET window == Min(Cardinality(StoredDates(u)), HistoryWindow)
    IN  /\ GetConsecutiveGlueCount(u) = Cardinality({k \in 1..window : LeadingGlue(u, k)})
        /\ StoredDates(u) = {} => GetConsecutiveGlueCount(u) = 0

\* The most recent vote is ok and an older glue vote follows it: count 0.
C7_Witness ==
  \E u \in Users :
    /\ StoredDates(u) = {<<2025, 11, 2>>, <<2025, 11, 3>>}
    /\ user_votes[<<u, <<2025, 11, 3>>>>].mood = "ok"
    /\ user_votes[<<u, <<2025, 11, 2>>>>].mood = "glue"
    /\ GetConsecutiveGlueCount(u) = 0

(***************************************************************************)
(* C8: getConsecutiveGlueCount(user) is the length of the run of           *)
(* consecutive calendar days, ending at the user's most recent recorded    *)
(* day, on all of which the user voted glue.                               *)
(***************************************************************************)
RECURSIVE GlueRunEndingAt(_, _)
GlueRunEndingAt(u, d) ==
  IF d \in StoredDates(u) /\ user_votes[<<u, d>>].mood = "glue"
  THEN 1 + GlueRunEndingAt(u, PreviousDay(d))
  ELSE 0

CalendarStreak(u) ==
  IF StoredDates(u) = {} THEN 0
  ELSE GlueRunEndingAt(u, CHOOSE d \in StoredDates(u) : \A e \in StoredDates(u) : ~Later(e, d))

C8_StreakOfConsecutiveDays ==
  \A u \in Users : GetConsecutiveGlueCount(u) = Min(CalendarStreak(u), HistoryWindow)

(***************************************************************************)
(* C9: for every threshold >= 1, the users of the histories returned by    *)
(* getUsersAtRisk(threshold) are exactly the users whose                   *)
(* getConsecutiveGlueCount is >= threshold, each once; a user without a    *)
(* stored vote never appears.                                              *)
(***************************************************************************)
C9_AtRiskIffCountReachesThreshold ==
  \A t \in Thresholds :
    LET atRisk == GetUsersAtRisk(t)
    IN  /\ \A i \in 1..Len(atRisk) : atRisk[i] # <<>>
        /\ {atRisk[i][1].odUserId : i \in 1..Len(atRisk)}
             = {u \in Users : GetConsecutiveGlueCount(u) >= t}
        /\ \A i, j \in 1..Len(atRisk) :
             atRisk[i][1].odUserId = atRisk[j][1].odUserId => i = j
        /\ \A i \in 1..Len(atRisk) : StoredDates(atRisk[i][1].odUserId) # {}

\* A user with exactly 2 leading glue votes: returned for threshold 2, not
\* for threshold 3, while the other user has no stored vote.
C9_Witness ==
  \E u \in Users :
    /\ GetConsecutiveGlueCount(u) = 2
    /\ Len(GetUsersAtRisk(2)) = 1
    /\ GetUsersAtRisk(2)[1][1].odUserId = u
    /\ GetUsersAtRisk(3) = <<>>

(***************************************************************************)
(* C10: the day count reported for an at-risk user (consecutiveDays of     *)
(* GET /check-alerts, the day count of the wellness alert) is that user's  *)
(* consecutive glue count.                                                 *)
(***************************************************************************)
C10_ReportedDaysAreTheStreak ==
  \A t \in Thresholds :
    LET entries == CheckAlerts(t).usersAtRisk
        atRisk == GetUsersAtRisk(t)
        alerts == WellnessCheck(t)
    IN  /\ \A i \in 1..Len(entries) :
             entries[i].consecutiveDays = GetConsecutiveGlueCount(entries[i].odUserId)
        /\ \A i \in 1..Len(alerts) :
             alerts[i].consecutiveDays = GetConsecutiveGlueCount(atRisk[i][1].odUserId)

(***************************************************************************)
(* C11: getStats(startDate, endDate) with startDate <= endDate returns one *)
(* entry for every calendar day from startDate to endDate, both included,  *)
(* and no other entry, in ascending order of date; the entry of a day      *)
(* without a vote has umazing = ok = glue = total = 0.                     *)
(***************************************************************************)
RECURSIVE DaysOfRange(_, _)
DaysOfRange(startDate, endDate) ==
  IF DayNumber(startDate) > DayNumber(endDate) THEN <<>>
  ELSE <<startDate>> \o DaysOfRange(NextDay(startDate), endDate)

VotersOn(d) == {u \in Users : <<d, u>> \in DOMAIN votes}

C11_OneEntryPerDayOfRange ==
  \A tz \in TimeZones, startDate \in Dates, endDate \in Dates :
    DayNumber(startDate) <= DayNumber(endDate) =>
      LET stats == GetStats(tz, startDate, endDate)
          days == DaysOfRange(startDate, endDate)
      IN  /\ Len(stats) = Len(days)
          /\ \A i \in 1..Len(stats) :
               /\ stats[i].date = days[i]
               /\ VotersOn(days[i]) = {} =>
                    stats[i] = ZeroStats(days[i])

(***************************************************************************)
(* C12: in every entry getStats returns, each of umazing, ok and glue is   *)
(* the number of by-date records of that day with that mood, and total is  *)
(* their sum and the number of users with a record on that day; once the   *)
(* recordVote calls have returned, a user is counted under the mood of the *)
(* last vote for that day.                                                 *)
(***************************************************************************)
VotersWithMood(d, mood) == {u \in VotersOn(d) : votes[<<d, u>>].mood = mood}

C12_CountersMatchStoredVotes ==
  \A tz \in TimeZones, startDate \in Dates, endDate \in Dates :
    LET stats == GetStats(tz, startDate, endDate)
    IN  \A i \in 1..Len(stats) :
          /\ \A mood \in Moods :
               /\ stats[i][mood] = Cardinality(VotersWithMood(stats[i].date, mood))
               /\ Quiescent =>
                    stats[i][mood]
                      = Cardinality({u \in Users : lastMood[<<u, stats[i].date>>] = mood})
          /\ stats[i].total = stats[i].umazing + stats[i].ok + stats[i].glue
          /\ stats[i].total = Cardinality(VotersOn(stats[i].date))

\* getStats has returned while two users have a vote on one day, and the
\* entry of that day counts both.
C12_Witness ==
  /\ response.op = "getStats" /\ response.size >= 1
  /\ \E d \in Dates, tz \in TimeZones :
       /\ Cardinality(VotersOn(d)) = 2
       /\ GetStats(tz, d, d) # <<>>
       /\ GetStats(tz, d, d)[1].total = 2

(***************************************************************************)
(* C13: getVotesForDate(date) returns the by-date records of that date and *)
(* nothing else: every returned record has the date asked for, each user   *)
(* with a vote on that date has exactly one record in the result, and the  *)
(* result is empty when nobody voted on that date.                         *)
(***************************************************************************)
C13_VotesOfTheDateOnly ==
  \A d \in Dates :
    LET records == GetVotesForDate(d)
    IN  /\ \A i \in 1..Len(records) : records[i].date = d
        /\ Range(records) = {votes[<<d, u>>] : u \in VotersOn(d)}
        /\ \A u \in VotersOn(d) :
             Cardinality({i \in 1..Len(records) : records[i].odUserId = u}) = 1
        /\ Len(records) = Cardinality(VotersOn(d))
        /\ VotersOn(d) = {} => records = <<>>
        /\ Quiescent => \A u \in Users : u \in VotersOn(d) <=> lastMood[<<u, d>>] # "none"

\* getVotesForDate has returned the votes of two users for one date, and
\* no vote is stored on another date.
C13_Witness ==
  /\ response = [op |-> "getVotesForDate", size |-> 2]
  /\ \E d \in Dates, e \in Dates :
       /\ Len(GetVotesForDate(d)) = 2
       /\ GetVotesForDate(d)[1].odUserId # GetVotesForDate(d)[2].odUserId
       /\ GetVotesForDate(e) = <<>>

(***************************************************************************)
(* C15: a user without a stored vote has an empty history (for every       *)
(* limit) and a glue count of 0, a date without a vote has an empty        *)
(* getVotesForDate, and on an empty store getUsersAtRisk is empty for      *)
(* every threshold and GET /check-alerts answers 200.                      *)
(***************************************************************************)
C15_NotFoundIsEmpty ==
  /\ \A u \in Users :
       (\A d \in Dates : <<u, d>> \notin DOMAIN user_votes) =>
         /\ \A limit \in Limits \cup {DefaultLimit} : GetUserHistory(u, limit) = <<>>
         /\ GetConsecutiveGlueCount(u) = 0
  /\ \A d \in Dates :
       (\A u \in Users : <<d, u>> \notin DOMAIN votes) => GetVotesForDate(d) = <<>>
  /\ user_votes = EmptyStore =>
       \A threshold \in Thresholds :
         /\ GetUsersAtRisk(threshold) = <<>>
         /\ CheckAlerts(threshold).status = 200

\* getUserHistory has returned nothing for a user without a vote while the
\* other user has one, and some date has no vote.
C15_Witness ==
  /\ response = [op |-> "getUserHistory", size |-> 0]
  /\ \E u \in Users, v \in Users, d \in Dates :
       /\ GetUserHistory(u, DefaultLimit) # <<>>
       /\ \A e \in Dates : <<v, e>> \notin DOMAIN user_votes
       /\ GetUserHistory(v, DefaultLimit) = <<>>
       /\ \A w \in Users : <<d, w>> \notin DOMAIN votes

(***************************************************************************)
(* C16: getStats(startDate, endDate) with startDate after endDate returns  *)
(* the empty sequence, whatever votes are stored.                          *)
(***************************************************************************)
C16_ReversedRangeIsEmpty ==
  \A tz \in TimeZones, startDate \in Dates, endDate \in Dates :
    DayNumber(startDate) > DayNumber(endDate) => GetStats(tz, startDate, endDate) = <<>>

\* getStats has returned nothing for a reversed range with votes stored on
\* both of its ends.
C16_Witness ==
  /\ response = [op |-> "getStats", size |-> 0]
  /\ \E tz \in TimeZones, startDate \in Dates, endDate \in Dates :
       /\ DayNumber(startDate) > DayNumber(endDate)
       /\ VotersOn(startDate) # {} /\ VotersOn(endDate) # {}
       /\ GetStats(tz, startDate, endDate) = <<>>

(***************************************************************************)
(* C19: a GET /vote request whose user parameter is missing or empty,      *)
(* whose mood is missing, or whose mood is none of umazing, ok and glue,   *)
(* is answered with status 400 at once: it builds no record, never waits   *)
(* on a kv.set and writes neither index.                                   *)
(***************************************************************************)
InvalidQuery(q) == q.user \in {NoParam, Empty} \/ q.mood \notin Moods

C19_InvalidVoteRejected ==
  \A p \in Handlers :
    (pc[p] # "idle" /\ InvalidQuery(query[p])) =>
      /\ pc[p] = "responded"
      /\ result[p] = "rejected"
      /\ VoteStatus(result[p]) = 400
      /\ rec[p] = NoRecord
      /\ wrote[p] = {}

\* A request with an unknown mood was rejected while a vote is stored.
C19_Witness ==
  \E p \in Handlers :
    /\ pc[p] = "responded" /\ result[p] = "rejected"
    /\ query[p].user \in Users /\ query[p].mood = "bad"
    /\ votes # EmptyStore /\ user_votes # EmptyStore

(***************************************************************************)
(* C20: whatever GET /vote requests are made, every record stored in       *)
(* either index has a date that is a calendar date YYYY-MM-DD and a        *)
(* userName that is not empty.                                             *)
(***************************************************************************)
IsCalendarDate(d) ==
  /\ d[2] \in 1..12
  /\ d[3] \in 1..DaysInMonth(d[1], d[2])

WellFormed(record) == IsCalendarDate(record.date) /\ record.odUserName # Empty

C20_StoredVotesAreWellFormed ==
  /\ \A k \in DOMAIN votes : WellFormed(votes[k])
  /\ \A k \in DOMAIN user_votes : WellFormed(user_votes[k])

(***************************************************************************)
(* C14: getConsecutiveGlueCount never returns more than 30; for a user     *)
(* with 31 or more stored votes whose 31 most recent ones are all glue it  *)
(* returns exactly 30; and getUsersAtRisk(threshold) is empty for every    *)
(* threshold above 30 (checked for 31 and for 30 + MaxThreshold).          *)
(***************************************************************************)
HistoryDates(u) == {k[2] : k \in {j \in DOMAIN user_votes : j[1] = u}}

\* u has n or more stored votes and the n most recent ones are all glue:
\* every stored vote that is not glue has n or more later ones.
GlueOnMostRecent(u, n) ==
  /\ Cardinality(HistoryDates(u)) >= n
  /\ \A d \in {e \in HistoryDates(u) : user_votes[<<u, e>>].mood # "glue"} :
       Cardinality({e \in HistoryDates(u) : Later(e, d)}) >= n

C14_StreakCappedAtHistoryWindow ==
  /\ \A u \in Users :
       /\ GetConsecutiveGlueCount(u) <= HistoryWindow
       /\ GlueOnMostRecent(u, HistoryWindow + 1) => GetConsecutiveGlueCount(u) = HistoryWindow
  /\ \A threshold \in {HistoryWindow + 1, HistoryWindow + MaxThreshold} :
       GetUsersAtRisk(threshold) = <<>>

\* A glue vote has just been recorded for a user who now has more than 30
\* votes, the 31 most recent ones all glue, and the count is 30.
C14_Witness ==
  \E p \in Handlers :
    /\ pc[p] = "responded" /\ result[p] = "ok" /\ rec[p].mood = "glue"
    /\ GlueOnMostRecent(rec[p].odUserId, HistoryWindow + 1)
    /\ GetConsecutiveGlueCount(rec[p].odUserId) = HistoryWindow

(***************************************************************************)
(* C17: when the recordVote calls that overlap are for different (userId,  *)
(* date) pairs, every interleaving of their writes gives what running them *)
(* one after the other gives: a call between its two writes finds its own  *)
(* record under its by-date key, a call that returns leaves its record     *)
(* under both of its keys, and whenever all calls have returned the two    *)
(* indexes hold the same keys and records and a pair is stored iff a call  *)
(* for it has returned, with the mood of the last such call.               *)
(***************************************************************************)
Key(record) == <<record.date, record.odUserId>>

UserKey(record) == <<record.odUserId, record.date>>

SequentialOutcome ==
  /\ IndexesAgree
  /\ \A u \in Users, d \in Dates :
       IF lastMood[<<u, d>>] = "none"
       THEN <<d, u>> \notin DOMAIN votes
       ELSE /\ <<d, u>> \in DOMAIN votes
            /\ votes[<<d, u>>].mood = lastMood[<<u, d>>]

C17_DifferentPairsIndependent ==
  [][ /\ \A p \in Handlers :
           pc[p] = "set_user_votes" =>
             /\ Key(rec[p]) \in DOMAIN votes
             /\ votes[Key(rec[p])] = rec[p]
      /\ \A p \in Handlers :
           (pc[p] = "set_user_votes" /\ pc'[p] = "responded") =>
             /\ votes'[Key(rec[p])] = rec[p]
             /\ user_votes'[UserKey(rec[p])] = rec[p]
      /\ Quiescent' => SequentialOutcome' ]_vars

\* Two calls for different pairs have both returned; the two votes are stored.
C17_Witness ==
  \E p \in Handlers, q \in Handlers :
    /\ p # q
    /\ pc[p] = "responded" /\ result[p] = "ok"
    /\ pc[q] = "responded" /\ result[q] = "ok"
    /\ Key(rec[p]) # Key(rec[q])
    /\ Cardinality(DOMAIN votes) = 2 /\ Cardinality(DOMAIN user_votes) = 2

(***************************************************************************)
(* C18: no step removes a key from either index; the by-date index changes *)
(* only in the first write of a recordVote and the by-user index only in   *)
(* its second write, each by setting that call's key to its record; and a  *)
(* step in which getUserHistory, getVotesForDate, getStats,                *)
(* getConsecutiveGlueCount or getUsersAtRisk returns changes neither.      *)
(***************************************************************************)
ReadMethods ==
  {"getUserHistory", "getVotesForDate", "getStats", "getConsecutiveGlueCount",
   "getUsersAtRisk"}

C18_OnlyRecordVoteChangesTheStore ==
  [][ /\ DOMAIN votes \subseteq DOMAIN votes'
      /\ DOMAIN user_votes \subseteq DOMAIN user_votes'
      /\ votes' # votes =>
           \E p \in Handlers :
             /\ pc[p] = "set_votes" /\ pc'[p] = "set_user_votes"
             /\ votes' = KvSet(votes, Key(rec[p]), rec[p])
             /\ user_votes' = user_votes
      /\ user_votes' # user_votes =>
           \E p \in Handlers :
             /\ pc[p] = "set_user_votes" /\ pc'[p] = "responded"
             /\ user_votes' = KvSet(user_votes, UserKey(rec[p]), rec[p])
             /\ votes' = votes
      /\ response'.op \in ReadMethods => (votes' = votes /\ user_votes' = user_votes) ]_vars

\* getStats has returned three entries on a store that holds two votes.
C18_Witness ==
  /\ response.op = "getStats" /\ response.size = 3
  /\ Cardinality(DOMAIN votes) = 2 /\ Cardinality(DOMAIN user_votes) = 2

(***************************************************************************)
(* C21: in every reachable state, between the two writes of a recordVote,  *)
(* after a failed write and under every interleaving of concurrent calls,  *)
(* each (userId, date) key of the by-user index is a key of the by-date    *)
(* index too.                                                              *)
(***************************************************************************)
C21_ByUserKeysAreByDateKeys ==
  \A k \in DOMAIN user_votes : <<k[2], k[1]>> \in DOMAIN votes

\* One call has failed at its second write, leaving a by-date record the
\* by-user index lacks, while another call has completed both writes.
C21_Witness ==
  \E p \in Handlers, q \in Handlers :
    /\ pc[p] = "responded" /\ result[p] = "error" /\ wrote[p] = {"votes"}
    /\ pc[q] = "responded" /\ result[q] = "ok"
    /\ Key(rec[p]) \in DOMAIN votes /\ UserKey(rec[p]) \notin DOMAIN user_votes
    /\ UserKey(rec[q]) \in DOMAIN user_votes

(***************************************************************************)
(* C22: for every range, the totals of the entries getStats returns add up *)
(* to the number of by-date records whose date string is at or after       *)
(* startDate and at or before endDate: each such vote is counted once.     *)
(***************************************************************************)
RECURSIVE SumOfTotals(_)
SumOfTotals(stats) ==
  IF stats = <<>> THEN 0 ELSE Head(stats).total + SumOfTotals(Tail(stats))

VotesWithin(startDate, endDate) ==
  {k \in DOMAIN votes : /\ LocaleCompare(votes[k].date, startDate) >= 0
                        /\ LocaleCompare(votes[k].date, endDate) <= 0}

C22_EveryVoteInRangeCounted ==
  \A tz \in TimeZones, startDate \in Dates, endDate \in Dates :
    SumOfTotals(GetStats(tz, startDate, endDate))
      = Cardinality(VotesWithin(startDate, endDate))

(***************************************************************************)
(* C23: for every threshold >= 1, getUsersAtRisk(threshold) returns at     *)
(* most one sequence per user; each sequence has exactly threshold         *)
(* records, all of one user and all glue, in strictly descending order of  *)
(* date, and they are that user's threshold most recent stored votes.      *)
(***************************************************************************)
C23_AtRiskHistories ==
  \A threshold \in Thresholds :
    LET atRisk == GetUsersAtRisk(threshold)
    IN  \A i \in 1..Len(atRisk) :
          LET history == atRisk[i]
          IN  /\ Len(history) = threshold
              /\ \A j \in 1..Len(atRisk) : j # i => atRisk[j][1].odUserId # history[1].odUserId
              /\ \A k \in 1..Len(history) :
                   /\ history[k].odUserId = history[1].odUserId
                   /\ history[k].mood = "glue"
                   /\ history[k] = user_votes[<<history[k].odUserId, history[k].date>>]
                   /\ Rank(history[k].odUserId, history[k].date) = k
              /\ \A k \in 1..(Len(history) - 1) : Later(history[k].date, history[k + 1].date)

\* getUsersAtRisk has returned one history for threshold 2: a user's two
\* glue votes, the later one first.
C23_Witness ==
  /\ response = [op |-> "getUsersAtRisk", size |-> 1]
  /\ Len(GetUsersAtRisk(2)) = 1
  /\ Len(GetUsersAtRisk(2)[1]) = 2
  /\ Later(GetUsersAtRisk(2)[1][1].date, GetUsersAtRisk(2)[1][2].date)

(***************************************************************************)
(* C24: for every threshold from 0 up, every sequence getUsersAtRisk       *)
(* returns is non-empty, GET /check-alerts answers 200 and the Daily       *)
(* Wellness Check builds an alert for every returned sequence.             *)
(***************************************************************************)
C24_AtRiskHistoriesNonEmpty ==
  \A threshold \in 0..MaxThreshold :
    LET atRisk == GetUsersAtRisk(threshold)
    IN  /\ \A i \in 1..Len(atRisk) : atRisk[i] # <<>>
        /\ CheckAlerts(threshold).status = 200
        /\ Len(WellnessCheck(threshold)) = Len(atRisk)

(***************************************************************************)
(* C25: when getUsersAtRisk returns while votes were recorded between its  *)
(* steps, every record of every returned sequence is glue, and so each     *)
(* returned sequence is a run of threshold glue votes of its user.         *)
(***************************************************************************)
C25_ScanReturnsGlueOnly ==
  scan.pc = "returned" =>
    \A i \in 1..Len(scan.atRisk) :
      /\ Len(scan.atRisk[i]) = scan.threshold
      /\ \A k \in 1..Len(scan.atRisk[i]) : scan.atRisk[i][k].mood = "glue"

(***************************************************************************)
(* C26: the stats callers report the last N days: for days = N >= 1 the    *)
(* handlers of /stats and /trigger_stats obtain exactly N daily entries,   *)
(* the last of which is today's, and the Weekly Stats Summary job obtains  *)
(* exactly 7.                                                              *)
(***************************************************************************)
C26_StatsCallersCoverLastNDays ==
  /\ \A tz \in TimeZones, today \in Todays, days \in 1..MaxDays :
       LET stats == StatsRequest(tz, today, days)
       IN  /\ Len(stats) = days
           /\ stats[Len(stats)].date = ToISODate(today)
  /\ \A tz \in TimeZones : Len(WeeklyStatsSummary(tz)) = WeeklyDays

(***************************************************************************)
(* C27: for every DailyStats sequence, the embed's color follows one rule  *)
(* over the summed counts: gray iff the summed total is 0; otherwise green *)
(* iff umazing >= ok and umazing >= glue; otherwise red iff glue > ok;     *)
(* otherwise yellow.  The description reports the sum of the daily totals. *)
(***************************************************************************)
RECURSIVE SumOfMood(_, _)
SumOfMood(stats, mood) ==
  IF stats = <<>> THEN 0 ELSE Head(stats)[mood] + SumOfMood(Tail(stats), mood)

ColorRule(umazing, ok, glue, total) ==
  IF total = 0 THEN Gray
  ELSE IF umazing >= ok /\ umazing >= glue THEN Green
  ELSE IF glue > ok THEN Red
  ELSE Yellow

C27_ColorFollowsSummedCounts ==
  embed.pc = "built" =>
    /\ embed.payload.color = ColorRule(SumOfMood(embed.stats, "umazing"),
                                       SumOfMood(embed.stats, "ok"),
                                       SumOfMood(embed.stats, "glue"),
                                       SumOfTotals(embed.stats))
    /\ embed.payload.color = Gray <=> SumOfTotals(embed.stats) = 0
    /\ embed.payload.description.total = SumOfTotals(embed.stats)

\* An embed of two days was built in which umazing ties with ok and leads glue.
C27_Witness ==
  /\ embed.pc = "built"
  /\ Len(embed.stats) = 2
  /\ SumOfMood(embed.stats, "umazing") = SumOfMood(embed.stats, "ok")
  /\ SumOfMood(embed.stats, "umazing") > SumOfMood(embed.stats, "glue")
  /\ embed.payload.color = Green

(***************************************************************************)
(* C28: handleMessage never sends a message in response to a message whose *)
(* author is flagged as a bot or has the bot's own id, whether or not it   *)
(* mentions the bot: such a message never gets past the author check, and  *)
(* nothing the call sent answers one.  The bot's own replies are such      *)
(* messages, so they trigger no further reply.                             *)
(***************************************************************************)
FromBotOrSelf(author) == author.present /\ (author.bot \/ author.id = BotId)

C28_NoReplyToBotsOrSelf ==
  /\ \A i \in 1..Len(chat.sent) : ~FromBotOrSelf(chat.sent[i].inReplyTo)
  /\ chat.pc \in {"saveContext", "generateReply", "sendFallback", "sendReply"}
       => ~FromBotOrSelf(chat.message.author)
  /\ \A i \in 1..Len(chat.inbox) : FromBotOrSelf(chat.inbox[i].author)

\* The bot's own reply, which mentions the bot, came back and was handled
\* without anything being sent.
C28_Witness ==
  /\ chat.pc = "idle"
  /\ chat.own
  /\ chat.outcome = "ignored"
  /\ chat.mentioned
  /\ chat.sent = <<>>
  /\ chat.inbox = <<>>

(***************************************************************************)
(* C29: in the gateway client at most one heartbeat interval timer is      *)
(* active at any time, whatever HELLO, close and reconnect events occur,   *)
(* and a heartbeat is sent only while the current socket is OPEN, carrying *)
(* the last sequence number received.                                      *)
(***************************************************************************)
C29_OneHeartbeatTimer ==
  /\ gateway.timers <= 1
  /\ gateway.beat # NoBeat =>
       /\ gateway.beat.readyState = "OPEN"
       /\ gateway.beat.d = gateway.beat.received

\* After a close and a reconnect the second socket got its HELLO and a
\* heartbeat with the latest sequence number went out on it.
C29_Witness ==
  /\ gateway.sock[1] = "CLOSED"
  /\ gateway.heartbeatHandle = "active"
  /\ gateway.timers = 1
  /\ gateway.beat.socket = 2
  /\ gateway.beat.d = MaxSeq

(***************************************************************************)
(* C30: once the gateway has started with a token, every socket close,     *)
(* the one the client issues on op 9 included, is eventually followed by   *)
(* exactly one new connection attempt, and at no time are two sockets      *)
(* pending or open at once.                                                *)
(***************************************************************************)
LiveSockets == {s \in Sockets : gateway.sock[s] \in {"CONNECTING", "OPEN", "CLOSING"}}
ClosedSockets == {s \in Sockets : gateway.sock[s] = "CLOSED"}

OneAttemptPerClose ==
  gateway.pc = "running" =>
    gateway.ws + gateway.reconnects = Cardinality(ClosedSockets) + 1

C30_EveryCloseReconnectsOnce ==
  /\ [](Cardinality(LiveSockets) <= 1 /\ OneAttemptPerClose)
  /\ \A s \in 1..(MaxSockets - 1) :
       (gateway.sock[s] \in {"CLOSING", "CLOSED"}) ~> (gateway.ws > s)

\* The client closed the first socket on an invalid session and the second
\* connection is open.
C30_Witness ==
  /\ gateway.clientClosed = {1}
  /\ gateway.sock[1] = "CLOSED"
  /\ gateway.ws = 2
  /\ gateway.sock[2] = "OPEN"
  /\ gateway.reconnects = 0

====
